---- MODULE Spec2Model ----
(***************************************************************************)
(* The ABRP telemetry agent of src/lib/abrp.js (lines 1-869, version       *)
(* 2.1.0-alpha) as a state machine: the module state of the script, the    *)
(* host's scheduler registry, configuration store, metrics registry and    *)
(* clock, and one action per operator command, host event and HTTP         *)
(* completion callback.                                                    *)
(*                                                                         *)
(* Numbers.  Every JavaScript number is a fixed-point integer in           *)
(* thousandths (Milli): 5.004 kW is 5004, 70 km/h is 70000, and utc =      *)
(* Date.now() / 1000 is the clock in milliseconds.                         *)
(*                                                                         *)
(* Optional values.  A value that may be undefined or null is a sequence   *)
(* of length at most one: << >> is undefined/null, <<v>> is the value v.   *)
(* An object is a function from its own property names to their values.    *)
(***************************************************************************)
EXTENDS Integers, Sequences, FiniteSets, TLC

VARIABLES
    subscribedLowFrequency,   \* src/lib/abrp.js:127
    subscribedHighFrequency,  \* src/lib/abrp.js:128
    collectedMetrics,         \* src/lib/abrp.js:123
    lastSentTelemetry,        \* src/lib/abrp.js:124
    PubSub,                   \* host scheduler: [<<event, handler>> -> number of registrations]
    OvmsConfig,               \* host configuration store, namespace usr, prefix abrp.
    OvmsMetrics,              \* host metrics registry: available signal -> value
    clock,                    \* host clock, Date.now(), in milliseconds
    inflight,                 \* whether some HTTP request awaits its callback
    io,                       \* what the last operation did that the host can observe
    fn                        \* argument/result cell of the pure-function specifications

vars ==
    <<subscribedLowFrequency, subscribedHighFrequency, collectedMetrics,
      lastSentTelemetry, PubSub, OvmsConfig, OvmsMetrics, clock, inflight, io, fn>>

-----------------------------------------------------------------------------
(* Bounds of the model and constants of the program *)

MaxBuffer == 1

\* longest array given to medianPowerMetrics on its own
MaxLen == 4

MIN_CALIBRATION_SPEED == 70
maxCalibrationTimeout == 5
maxChargingTimeout == 30 * 60
staleConnectionTimeout == 3 * 60
staleConnectionTimeoutBuffer == 20
idleTimeout == 24 * 3600

Milli == 10 * 10 * 10

-----------------------------------------------------------------------------
(* JavaScript helpers *)

Undefined == << >>

Some(v) == <<v>>

\* obj[key]: undefined when obj has no such property
Get(obj, key) == IF key \in DOMAIN obj THEN <<obj[key]>> ELSE Undefined

\* obj[key] = value, adding the property when missing
Put(obj, key, value) ==
    [k \in DOMAIN obj \cup {key} |-> IF k = key THEN value ELSE obj[k]]

clone(obj) == [k \in DOMAIN obj |-> obj[k]]

isNil(value) == value = Undefined

\* the forEach of omitNil: every key holding null or undefined is deleted
deleteNil(target) == [k \in {j \in DOMAIN target : ~isNil(target[j])} |-> target[k]]

\* omitNil that deletes from its argument
omitNil_inPlace(obj) == [obj |-> deleteNil(obj), cloned |-> deleteNil(obj)]

\* omitNil(obj): obj is what the argument holds after the call, cloned is
\* the object returned
omitNil(obj) == [obj |-> obj, cloned |-> deleteNil(clone(obj))]

\* !value, by the type of the value: an optional number (0 is falsy), an
\* optional string ('' is falsy), an optional boolean
FalsyNumber(value) == value = Undefined \/ value = <<0>>

FalsyString(value) == value = Undefined \/ value = <<"">>

Truthy(value) == value = <<TRUE>>

Abs(x) == IF x < 0 THEN -x ELSE x

Pow10(n) == IF n <= 0 THEN 1 ELSE IF n = 1 THEN 10 ELSE IF n = 2 THEN 100 ELSE Milli

\* Number(x.toFixed(precision)) of the fixed-point x: the nearest multiple
\* of 10^-precision, a tie going away from zero
toFixed(x, precision) ==
    LET unit == Pow10(3 - precision)
        q == (2 * Abs(x) + unit) \div (2 * unit)
    IN  IF x < 0 THEN -(q * unit) ELSE q * unit

\* round that cuts the digits off instead of rounding to the nearest
round_truncating(number, precision) ==
    IF FalsyNumber(number)
    THEN number
    ELSE LET unit == Pow10(3 - (IF FalsyNumber(precision) THEN 0 ELSE precision[1]))
         IN  Some(number[1] - (number[1] % unit))

\* round(number, precision) of an optional number; precision << >> is the
\* omitted argument (precision || 0)
round(number, precision) ==
    IF FalsyNumber(number)
    THEN number
    ELSE Some(toFixed(number[1], IF FalsyNumber(precision) THEN 0 ELSE precision[1]))

-----------------------------------------------------------------------------
(* The sample smoother *)

\* Array.prototype.sort with the comparator a.power - b.power, as a stable
\* insertion sort: Insert puts x after the entries that do not compare
\* greater
RECURSIVE Insert(_, _)
Insert(x, sorted) ==
    IF sorted = << >> THEN <<x>>
    ELSE IF Head(sorted).power - x.power > 0 THEN <<x>> \o sorted
    ELSE <<Head(sorted)>> \o Insert(x, Tail(sorted))

RECURSIVE SortByPower(_)
SortByPower(array) ==
    IF array = << >> THEN << >>
    ELSE Insert(array[Len(array)], SortByPower(SubSeq(array, 1, Len(array) - 1)))

\* array.sort(comparator) with no slice(): the argument is sorted in place
sortedInPlace(array) == [array |-> SortByPower(array), sorted |-> SortByPower(array)]

\* array.slice().sort(comparator): what the argument holds afterwards, and
\* the sorted copy
sortedCopy(array) == [array |-> array, sorted |-> SortByPower(array)]

\* medianPowerMetrics that takes the upper of the two middle entries
medianPowerMetrics_upperMiddle(array) ==
    IF Len(array) = 0 THEN Undefined
    ELSE LET sorted == sortedCopy(array).sorted
             midpoint == Len(sorted) \div 2
         IN  Some(sorted[midpoint + 1])

\* null is << >>; indices are those of the source plus one
medianPowerMetrics(array) ==
    IF Len(array) = 0 THEN Undefined
    ELSE LET sorted == sortedCopy(array).sorted
             midpoint == Len(sorted) \div 2
         IN  IF Len(sorted) % 2 = 0
             THEN Some(sorted[midpoint - 1 + 1])
             ELSE Some(sorted[midpoint + 1])

-----------------------------------------------------------------------------
(* The metric accessor *)

\* OvmsMetrics.HasValue(name)
HasValue(name) == name \in DOMAIN OvmsMetrics

\* OvmsMetrics.GetValues(names): the mapping of the available names
GetValues(names) == [n \in names \cap DOMAIN OvmsMetrics |-> OvmsMetrics[n]]

isOvmsMetricSupported(requiredMetrics) == \A n \in requiredMetrics : HasValue(n)

\* case label: of switch (value), a strict comparison of what GetValues
\* returned, a mapping, with a string
SwitchCase(value, label) == value.type = "string" /\ value.val = label

\* the common shape of getOVMSMetric's cases: one required signal, its
\* value passed through
Direct(name) ==
    LET isSupported == isOvmsMetricSupported({name})
    IN  [isSupported |-> isSupported,
         value |-> IF isSupported THEN Get(GetValues({name}), name) ELSE Undefined]

Unsupported == [isSupported |-> FALSE, value |-> Undefined]

Computed(requiredMetrics, value) ==
    IF isOvmsMetricSupported(requiredMetrics)
    THEN [isSupported |-> TRUE, value |-> Some(value)]
    ELSE Unsupported

getOVMSMetric(parameter) ==
    LET vehicleType == [type |-> "object", val |-> GetValues({"v.type"})]
        NL == SwitchCase(vehicleType, "NL")
        m == OvmsMetrics
    IN  CASE parameter = "utc" -> [isSupported |-> TRUE, value |-> Some(clock)]
          [] parameter = "soc" ->
                IF NL THEN Direct("xnl.v.b.soc.instrument") ELSE Direct("v.b.soc")
          [] parameter = "power" -> Direct("v.b.power")
          [] parameter = "speed" -> Direct("v.p.speed")
          [] parameter = "lat" -> Direct("v.p.latitude")
          [] parameter = "lon" -> Direct("v.p.longitude")
          [] parameter = "is_charging" ->
                IF NL
                THEN Computed({"v.c.state"}, m["v.c.state"] \in {"charging", "topoff"})
                ELSE Direct("v.c.charging")
          [] parameter = "is_dcfc" ->
                Computed({"v.c.mode"}, m["v.c.mode"] = "performance")
          [] parameter = "is_parked" ->
                Computed({"v.e.parktime"}, m["v.e.parktime"] > 0)
          [] parameter = "capacity" ->
                Computed({"v.b.cac", "v.b.voltage.nominal"},
                         (m["v.b.cac"] * m["v.b.voltage.nominal"]) \div Milli)
          [] parameter = "kwh_charged" ->
                Computed({"v.c.charging", "v.c.kwh"},
                         IF m["v.c.charging"] THEN m["v.c.kwh"] ELSE 0)
          [] parameter = "soh" ->
                IF NL THEN Direct("xnl.v.b.soh.instrument") ELSE Direct("v.b.soh")
          [] parameter = "heading" -> Direct("v.p.direction")
          [] parameter = "elevation" -> Direct("v.p.altitude")
          [] parameter = "ext_temp" -> Direct("v.e.temp")
          [] parameter = "batt_temp" -> Direct("v.b.temp")
          [] parameter = "voltage" -> Direct("v.b.voltage")
          [] parameter = "current" -> Direct("v.b.current")
          [] parameter = "odometer" -> Direct("v.p.odometer")
          [] parameter = "est_battery_range" ->
                IF NL
                THEN Computed({"xnl.v.b.range.instrument", "v.b.range.ideal"},
                        LET r == round(Some(m["xnl.v.b.range.instrument"]), Undefined)
                            instrumentRange == IF FalsyNumber(r) THEN 0 ELSE r[1]
                            idealRange == round(Some(m["v.b.range.ideal"]), Undefined)[1]
                        IN  IF 10 * idealRange > 11 * instrumentRange
                            THEN idealRange ELSE instrumentRange)
                ELSE Direct("v.b.range.est")
          [] OTHER -> Unsupported

IternioParameters ==
    {"utc", "soc", "power", "speed", "lat", "lon", "is_charging", "is_dcfc",
     "is_parked", "capacity", "kwh_charged", "soh", "heading", "elevation",
     "ext_temp", "batt_temp", "voltage", "current", "odometer",
     "est_battery_range"}

\* the object holding each supported parameter's value
createTelemetry ==
    LET supported == {p \in IternioParameters : getOVMSMetric(p).isSupported}
    IN  [p \in supported |-> getOVMSMetric(p).value[1]]

-----------------------------------------------------------------------------
(* The agent.  A function of the script reads and writes the module state, *)
(* the host registries and the host's outputs; it is an operator from the  *)
(* state s before the call to the state after it.                          *)

Handlers == {"sendTelemetryIfNecessary", "collectHighFrequencyMetrics"}

LowFrequencyEvents == {"ticker.10", "vehicle.on", "vehicle.off"}

Events == LowFrequencyEvents \cup {"ticker.1"}

\* what an operation shows the host: the notifications raised, the warnings
\* and errors logged, the HTTP requests issued, and the locals of a
\* low-frequency evaluation
Quiet(op) == [op |-> op, notify |-> << >>, log |-> << >>, requests |-> << >>, tick |-> << >>]

\* the state a call starts from
Current(op) ==
    [subscribedLowFrequency |-> subscribedLowFrequency,
     subscribedHighFrequency |-> subscribedHighFrequency,
     collectedMetrics |-> collectedMetrics,
     lastSentTelemetry |-> lastSentTelemetry,
     PubSub |-> PubSub,
     OvmsConfig |-> OvmsConfig,
     inflight |-> inflight,
     io |-> Quiet(op)]

\* OvmsNotify.Raise(type, subtype, message)
Raise(s, type, subtype, message) ==
    [s EXCEPT !.io.notify = Append(@, <<type, subtype, message>>)]

\* console.warn and console.error
Log(s, level, message) == [s EXCEPT !.io.log = Append(@, <<level, message>>)]

\* PubSub.subscribe(event, handler)
Subscribe(s, event, handler) == [s EXCEPT !.PubSub[<<event, handler>>] = @ + 1]

\* PubSub.unsubscribe(handler): every registration of the handler
Unsubscribe(s, handler) ==
    [s EXCEPT !.PubSub = [p \in DOMAIN @ |-> IF p[2] = handler THEN 0 ELSE @[p]]]

\* collectHighFrequencyMetrics that tests the power reading alone
collectHighFrequencyMetrics_powerOnly(s) ==
    LET metrics == GetValues({"v.b.power", "v.p.speed"})
        power == Get(metrics, "v.b.power")
        speed == Get(metrics, "v.p.speed")
    IN  IF ~isNil(power)
        THEN [s EXCEPT !.collectedMetrics =
                  Append(@, [power |-> power[1],
                             speed |-> IF isNil(speed) THEN 0 ELSE speed[1]])]
        ELSE s

collectHighFrequencyMetrics(s) ==
    LET metrics == GetValues({"v.b.power", "v.p.speed"})
        power == Get(metrics, "v.b.power")
        speed == Get(metrics, "v.p.speed")
    IN  IF ~isNil(power) /\ ~isNil(speed)
        THEN [s EXCEPT !.collectedMetrics =
                  Append(@, [power |-> power[1], speed |-> speed[1]])]
        ELSE s

getUsrAbrpConfig(s) == s.OvmsConfig

\* isSignificantTelemetryChange without its is_parked comparison
isSignificantTelemetryChange_noParked(currentTelemetry, previousTelemetry) ==
    IF Get(currentTelemetry, "soc") # Get(previousTelemetry, "soc") THEN TRUE
    ELSE IF Get(currentTelemetry, "is_charging") # Get(previousTelemetry, "is_charging")
    THEN TRUE
    ELSE IF /\ Truthy(Get(currentTelemetry, "is_charging"))
            /\ round(Get(currentTelemetry, "power"), Undefined)
                   # round(Get(previousTelemetry, "power"), Undefined)
    THEN TRUE
    ELSE FALSE

isSignificantTelemetryChange(currentTelemetry, previousTelemetry) ==
    IF Get(currentTelemetry, "soc") # Get(previousTelemetry, "soc") THEN TRUE
    ELSE IF Get(currentTelemetry, "is_charging") # Get(previousTelemetry, "is_charging")
    THEN TRUE
    ELSE IF Get(currentTelemetry, "is_parked") # Get(previousTelemetry, "is_parked")
    THEN TRUE
    ELSE IF /\ Truthy(Get(currentTelemetry, "is_charging"))
            /\ round(Get(currentTelemetry, "power"), Undefined)
                   # round(Get(previousTelemetry, "power"), Undefined)
    THEN TRUE
    ELSE FALSE

\* sendTelemetry without the test of the token
sendTelemetry_noTokenCheck(s, telemetry) ==
    LET config == getUsrAbrpConfig(s)
        token == Get(config, "user_token")
    IN  [s EXCEPT !.io.requests =
                      Append(@, [token |-> IF isNil(token) THEN "undefined" ELSE token[1],
                                 tlm |-> telemetry]),
                  !.inflight = TRUE]

\* HTTP.Request({done, fail, url}): the url's query parameters
sendTelemetry(s, telemetry) ==
    LET config == getUsrAbrpConfig(s)
        token == Get(config, "user_token")
    IN  IF FalsyString(token)
        THEN Log(s, "error", "config usr abrp.user_token not set")
        ELSE [s EXCEPT !.io.requests = Append(@, [token |-> token[1], tlm |-> telemetry]),
                       !.inflight = TRUE]

\* subscribeHighFrequency that registers the handler on every call
subscribeHighFrequency_unguarded(s) ==
    [Subscribe(s, "ticker.1", "collectHighFrequencyMetrics")
        EXCEPT !.subscribedHighFrequency = TRUE]

subscribeHighFrequency(s) ==
    LET s1 == IF ~s.subscribedHighFrequency
              THEN Subscribe(s, "ticker.1", "collectHighFrequencyMetrics")
              ELSE s
    IN  [s1 EXCEPT !.subscribedHighFrequency = TRUE]

subscribeLowFrequency(s) ==
    LET s1 == IF ~s.subscribedLowFrequency
              THEN Subscribe(Subscribe(Subscribe(s,
                       "ticker.10", "sendTelemetryIfNecessary"),
                       "vehicle.on", "sendTelemetryIfNecessary"),
                       "vehicle.off", "sendTelemetryIfNecessary")
              ELSE s
    IN  [s1 EXCEPT !.subscribedLowFrequency = TRUE]

unsubscribeHighFrequency(s) ==
    LET s1 == IF s.subscribedHighFrequency
              THEN Unsubscribe(s, "collectHighFrequencyMetrics")
              ELSE s
    IN  [s1 EXCEPT !.subscribedHighFrequency = FALSE]

\* unsubscribeLowFrequency that leaves the high-frequency subscription alone
unsubscribeLowFrequency_lowOnly(s) ==
    LET s1 == IF s.subscribedLowFrequency
              THEN Unsubscribe(s, "sendTelemetryIfNecessary")
              ELSE s
    IN  [s1 EXCEPT !.subscribedLowFrequency = FALSE]

unsubscribeLowFrequency(s) ==
    LET s1 == IF s.subscribedLowFrequency
              THEN Unsubscribe(s, "sendTelemetryIfNecessary")
              ELSE s
        s2 == [s1 EXCEPT !.subscribedLowFrequency = FALSE]
    IN  unsubscribeHighFrequency(s2)

\* the smoothing step without the rounding of the sample
smoothedTelemetry_unrounded(s) ==
    LET currentTelemetry == createTelemetry
        medianMetrics == medianPowerMetrics(s.collectedMetrics)
    IN  IF Len(s.collectedMetrics) # 0 /\ ~isNil(medianMetrics)
        THEN Put(Put(currentTelemetry, "power", medianMetrics[1].power),
                 "speed", medianMetrics[1].speed)
        ELSE currentTelemetry

\* the record of a low-frequency evaluation after the smoothing step
smoothedTelemetry(s) ==
    LET currentTelemetry == createTelemetry
        medianMetrics == medianPowerMetrics(s.collectedMetrics)
    IN  IF Len(s.collectedMetrics) # 0 /\ ~isNil(medianMetrics)
        THEN Put(Put(currentTelemetry,
                 "power", round(Some(medianMetrics[1].power), Some(2))[1]),
                 "speed", round(Some(medianMetrics[1].speed), Undefined)[1])
        ELSE currentTelemetry

\* the if-chain with the charging test ahead of the stale-connection test
maxElapsedDuration_chargingFirst(currentTelemetry, previousTelemetry) ==
    IF isSignificantTelemetryChange(currentTelemetry, previousTelemetry)
    THEN 0
    ELSE IF /\ ~isNil(Get(currentTelemetry, "speed"))
            /\ currentTelemetry.speed > MIN_CALIBRATION_SPEED * Milli
    THEN maxCalibrationTimeout * Milli
    ELSE IF Truthy(Get(currentTelemetry, "is_charging"))
    THEN maxChargingTimeout * Milli
    ELSE IF \/ ~Truthy(Get(currentTelemetry, "is_parked"))
            \/ Truthy(Get(currentTelemetry, "is_dcfc"))
    THEN (staleConnectionTimeout - staleConnectionTimeoutBuffer) * Milli
    ELSE idleTimeout * Milli

\* the if-chain with the charging interval as the last resort
maxElapsedDuration_noIdleBranch(currentTelemetry, previousTelemetry) ==
    IF isSignificantTelemetryChange(currentTelemetry, previousTelemetry)
    THEN 0
    ELSE IF /\ ~isNil(Get(currentTelemetry, "speed"))
            /\ currentTelemetry.speed > MIN_CALIBRATION_SPEED * Milli
    THEN maxCalibrationTimeout * Milli
    ELSE IF \/ ~Truthy(Get(currentTelemetry, "is_parked"))
            \/ Truthy(Get(currentTelemetry, "is_dcfc"))
    THEN (staleConnectionTimeout - staleConnectionTimeoutBuffer) * Milli
    ELSE maxChargingTimeout * Milli

\* the if-chain of sendTelemetryIfNecessary that sets maxElapsedDuration
maxElapsedDuration(currentTelemetry, previousTelemetry) ==
    IF isSignificantTelemetryChange(currentTelemetry, previousTelemetry)
    THEN 0
    ELSE IF /\ ~isNil(Get(currentTelemetry, "speed"))
            /\ currentTelemetry.speed > MIN_CALIBRATION_SPEED * Milli
    THEN maxCalibrationTimeout * Milli
    ELSE IF \/ ~Truthy(Get(currentTelemetry, "is_parked"))
            \/ Truthy(Get(currentTelemetry, "is_dcfc"))
    THEN (staleConnectionTimeout - staleConnectionTimeoutBuffer) * Milli
    ELSE IF Truthy(Get(currentTelemetry, "is_charging"))
    THEN maxChargingTimeout * Milli
    ELSE idleTimeout * Milli

\* sendTelemetryIfNecessary that looks at the subscription only when it sends
sendTelemetryIfNecessary_subscribeOnSend(s) ==
    LET currentTelemetry == smoothedTelemetry(s)
        s1 == IF Len(s.collectedMetrics) # 0
              THEN [s EXCEPT !.collectedMetrics = << >>]
              ELSE s
        elapsed == currentTelemetry.utc - s.lastSentTelemetry.utc
        maxElapsed == maxElapsedDuration(currentTelemetry, s.lastSentTelemetry)
        s2 == [s1 EXCEPT !.io.tick =
                  <<[elapsed |-> elapsed, maxElapsedDuration |-> maxElapsed]>>]
    IN  IF elapsed >= maxElapsed
        THEN LET s3 == [sendTelemetry(s2, currentTelemetry)
                           EXCEPT !.lastSentTelemetry = clone(currentTelemetry)]
             IN  IF Truthy(Get(currentTelemetry, "is_parked"))
                 THEN unsubscribeHighFrequency(s3)
                 ELSE subscribeHighFrequency(s3)
        ELSE s2

\* sendTelemetryIfNecessary that clears the buffer only when it sends
sendTelemetryIfNecessary_clearOnSend(s) ==
    LET currentTelemetry == smoothedTelemetry(s)
        elapsed == currentTelemetry.utc - s.lastSentTelemetry.utc
        maxElapsed == maxElapsedDuration(currentTelemetry, s.lastSentTelemetry)
        s2 == [s EXCEPT !.io.tick =
                  <<[elapsed |-> elapsed, maxElapsedDuration |-> maxElapsed]>>]
        s3 == IF elapsed >= maxElapsed
              THEN [sendTelemetry(s2, currentTelemetry)
                       EXCEPT !.lastSentTelemetry = clone(currentTelemetry),
                              !.collectedMetrics = << >>]
              ELSE s2
    IN  IF Truthy(Get(currentTelemetry, "is_parked"))
        THEN unsubscribeHighFrequency(s3)
        ELSE subscribeHighFrequency(s3)

\* sendTelemetryIfNecessary that sends only once elapsed exceeds the interval
sendTelemetryIfNecessary_strict(s) ==
    LET currentTelemetry == smoothedTelemetry(s)
        s1 == IF Len(s.collectedMetrics) # 0
              THEN [s EXCEPT !.collectedMetrics = << >>]
              ELSE s
        elapsed == currentTelemetry.utc - s.lastSentTelemetry.utc
        maxElapsed == maxElapsedDuration(currentTelemetry, s.lastSentTelemetry)
        s2 == [s1 EXCEPT !.io.tick =
                  <<[elapsed |-> elapsed, maxElapsedDuration |-> maxElapsed]>>]
        s3 == IF elapsed > maxElapsed
              THEN [sendTelemetry(s2, currentTelemetry)
                       EXCEPT !.lastSentTelemetry = clone(currentTelemetry)]
              ELSE s2
    IN  IF Truthy(Get(currentTelemetry, "is_parked"))
        THEN unsubscribeHighFrequency(s3)
        ELSE subscribeHighFrequency(s3)

\* sendTelemetryIfNecessary that takes the sentinel for a record just sent
sendTelemetryIfNecessary_quietFirst(s) ==
    LET currentTelemetry == smoothedTelemetry(s)
        s1 == IF Len(s.collectedMetrics) # 0
              THEN [s EXCEPT !.collectedMetrics = << >>]
              ELSE s
        elapsed == IF s.lastSentTelemetry.utc = 0
                   THEN 0
                   ELSE currentTelemetry.utc - s.lastSentTelemetry.utc
        maxElapsed == maxElapsedDuration(currentTelemetry, s.lastSentTelemetry)
        s2 == [s1 EXCEPT !.io.tick =
                  <<[elapsed |-> elapsed, maxElapsedDuration |-> maxElapsed]>>]
        s3 == IF elapsed >= maxElapsed
              THEN [sendTelemetry(s2, currentTelemetry)
                       EXCEPT !.lastSentTelemetry = clone(currentTelemetry)]
              ELSE s2
    IN  IF Truthy(Get(currentTelemetry, "is_parked"))
        THEN unsubscribeHighFrequency(s3)
        ELSE subscribeHighFrequency(s3)

sendTelemetryIfNecessary(s) ==
    LET currentTelemetry == smoothedTelemetry(s)
        s1 == IF Len(s.collectedMetrics) # 0
              THEN [s EXCEPT !.collectedMetrics = << >>]
              ELSE s
        elapsed == currentTelemetry.utc - s.lastSentTelemetry.utc
        maxElapsed == maxElapsedDuration(currentTelemetry, s.lastSentTelemetry)
        s2 == [s1 EXCEPT !.io.tick =
                  <<[elapsed |-> elapsed, maxElapsedDuration |-> maxElapsed]>>]
        s3 == IF elapsed >= maxElapsed
              THEN [sendTelemetry(s2, currentTelemetry)
                       EXCEPT !.lastSentTelemetry = clone(currentTelemetry)]
              ELSE s2
    IN  IF Truthy(Get(currentTelemetry, "is_parked"))
        THEN unsubscribeHighFrequency(s3)
        ELSE subscribeHighFrequency(s3)

\* validateUsrAbrpConfig that accepts any configuration
validateUsrAbrpConfig_accepting(s) == [ok |-> TRUE, s |-> s]

validateUsrAbrpConfig(s) ==
    LET config == getUsrAbrpConfig(s)
    IN  IF FalsyString(Get(config, "user_token"))
        THEN [ok |-> FALSE,
              s |-> Raise(s, "error", "usr.abrp.status",
                          "ABRP::config usr abrp.user_token not set")]
        ELSE [ok |-> TRUE, s |-> s]

\* onetime that records what it sent
onetime_recording(s) ==
    LET v == validateUsrAbrpConfig(s)
    IN  IF ~v.ok THEN v.s
        ELSE [sendTelemetry(v.s, createTelemetry)
                 EXCEPT !.lastSentTelemetry = clone(createTelemetry)]

onetime(s) ==
    LET v == validateUsrAbrpConfig(s)
    IN  IF ~v.ok THEN v.s ELSE sendTelemetry(v.s, createTelemetry)

\* prints only
info(s) == s

resetConfig(s) ==
    Raise([s EXCEPT !.OvmsConfig = << >>],
          "info", "usr.abrp.status", "ABRP::usr abrp config reset")

\* send without the "Already running" and "Already stopped" tests
send_unconditional(s, onoff) ==
    IF onoff
    THEN LET v == validateUsrAbrpConfig(s)
         IN  IF ~v.ok THEN v.s
             ELSE Raise(subscribeLowFrequency(v.s),
                        "info", "usr.abrp.status", "ABRP::started")
    ELSE Raise(unsubscribeLowFrequency(s),
               "info", "usr.abrp.status", "ABRP::stopped")

\* send that stops without the ABRP::stopped notification
send_silentStop(s, onoff) ==
    IF onoff
    THEN LET v == validateUsrAbrpConfig(s)
         IN  IF ~v.ok THEN v.s
             ELSE IF v.s.subscribedLowFrequency
             THEN Log(v.s, "warn", "Already running !")
             ELSE Raise(subscribeLowFrequency(v.s),
                        "info", "usr.abrp.status", "ABRP::started")
    ELSE IF ~s.subscribedLowFrequency
         THEN Log(s, "warn", "Already stopped !")
         ELSE unsubscribeLowFrequency(s)

send(s, onoff) ==
    IF onoff
    THEN LET v == validateUsrAbrpConfig(s)
         IN  IF ~v.ok THEN v.s
             ELSE IF v.s.subscribedLowFrequency
             THEN Log(v.s, "warn", "Already running !")
             ELSE Raise(subscribeLowFrequency(v.s),
                        "info", "usr.abrp.status", "ABRP::started")
    ELSE IF ~s.subscribedLowFrequency
         THEN Log(s, "warn", "Already stopped !")
         ELSE Raise(unsubscribeLowFrequency(s),
                    "info", "usr.abrp.status", "ABRP::stopped")

-----------------------------------------------------------------------------
(* The host: the vehicle behind the metrics registry, the clock, the       *)
(* configuration store                                                      *)

Restrict(f, names) == [n \in DOMAIN f \cap names |-> f[n]]

\* signals that do not move in the runs explored
StaticSignals ==
    [n \in {"v.p.latitude", "v.p.longitude", "v.p.direction", "v.p.altitude",
            "v.e.temp", "v.b.temp", "v.b.voltage", "v.b.current", "v.p.odometer",
            "v.b.soh", "xnl.v.b.soh.instrument", "v.b.cac", "v.b.voltage.nominal",
            "v.c.kwh", "v.b.range.est", "v.b.range.ideal",
            "xnl.v.b.range.instrument"} |->
        CASE n = "v.p.latitude" -> 59123456
          [] n = "v.p.longitude" -> 18123456
          [] n = "v.p.direction" -> 271500
          [] n = "v.p.altitude" -> 12300
          [] n = "v.e.temp" -> 0
          [] n = "v.b.temp" -> 21500
          [] n = "v.b.voltage" -> 355700
          [] n = "v.b.current" -> -1234
          [] n = "v.p.odometer" -> 4567800
          [] n = "v.b.soh" -> 93400
          [] n = "xnl.v.b.soh.instrument" -> 92000
          [] n = "v.b.cac" -> 2500
          [] n = "v.b.voltage.nominal" -> 3600
          [] n = "v.c.kwh" -> 4200
          [] n = "v.b.range.est" -> 180400
          [] n = "v.b.range.ideal" -> 200600
          [] OTHER -> 150400]

\* what the vehicle is doing: the signals the send policy looks at
Activity(soc, parktime, charging, state, mode, speed, power) ==
    [n \in {"v.b.soc", "xnl.v.b.soc.instrument", "v.e.parktime", "v.c.charging",
            "v.c.state", "v.c.mode", "v.p.speed", "v.b.power"} |->
        CASE n \in {"v.b.soc", "xnl.v.b.soc.instrument"} -> soc
          [] n = "v.e.parktime" -> parktime
          [] n = "v.c.charging" -> charging
          [] n = "v.c.state" -> state
          [] n = "v.c.mode" -> mode
          [] n = "v.p.speed" -> speed
          [] OTHER -> power]

Activities ==
    {Activity(50000, 600, FALSE, "stopped", "standard", 0, 0),          \* parked, idle
     Activity(50000, 600, TRUE, "charging", "standard", 0, -7004),      \* AC charging
     Activity(50000, 0, FALSE, "stopped", "standard", 80000, 20006)}    \* driving above 70 km/h

\* the signals each modelled vehicle's firmware reports, by v.type
VehicleTypes == {"KS", "O2"}

VehicleSignals ==
    [type \in VehicleTypes |->
        IF type = "KS"
        THEN {"v.type", "v.b.soc", "v.b.power", "v.p.speed", "v.p.latitude",
              "v.p.longitude", "v.c.charging", "v.c.state", "v.c.mode", "v.e.parktime",
              "v.c.kwh", "v.b.cac", "v.p.odometer"}
        ELSE {"v.type", "v.b.soc", "v.b.power", "v.p.latitude", "v.c.charging"}]

Registry(type, activity) ==
    Restrict(StaticSignals @@ activity @@ ("v.type" :> type), VehicleSignals[type])

Registries == [type \in VehicleTypes |-> {Registry(type, a) : a \in Activities}]

\* Date.now(): ten days after the epoch, and then 23 hours and 24 hours
\* later
Epoch == 10 * 86400 * Milli

Times == {Epoch + d * Milli : d \in {0, 82800, 86400}}

\* config set usr abrp.user_token <token>
Tokens == {"token-A"}

Configs == {<< >>} \cup {[user_token |-> t] : t \in Tokens}

Statuses == {200, 500}

-----------------------------------------------------------------------------
(* The state machine *)

NoRegistrations == [p \in Events \X Handlers |-> 0]

Init ==
    /\ subscribedLowFrequency = FALSE
    /\ subscribedHighFrequency = FALSE
    /\ collectedMetrics = << >>
    /\ lastSentTelemetry = [utc |-> 0]
    /\ PubSub = NoRegistrations
    /\ OvmsConfig \in Configs
    /\ OvmsMetrics \in UNION {Registries[type] : type \in VehicleTypes}
    /\ clock = Epoch
    /\ inflight = FALSE
    /\ io = Quiet("load")
    /\ fn = << >>

\* the state after a call
Commit(s) ==
    /\ subscribedLowFrequency' = s.subscribedLowFrequency
    /\ subscribedHighFrequency' = s.subscribedHighFrequency
    /\ collectedMetrics' = s.collectedMetrics
    /\ lastSentTelemetry' = s.lastSentTelemetry
    /\ PubSub' = s.PubSub
    /\ OvmsConfig' = s.OvmsConfig
    /\ inflight' = s.inflight
    /\ io' = s.io
    /\ UNCHANGED <<OvmsMetrics, clock, fn>>

Agent == <<subscribedLowFrequency, subscribedHighFrequency, collectedMetrics,
           lastSentTelemetry, PubSub, inflight>>

\* the vehicle moves on
VehicleChange ==
    /\ OvmsMetrics' \in Registries[OvmsMetrics["v.type"]] \ {OvmsMetrics}
    /\ io' = Quiet("host")
    /\ UNCHANGED <<Agent, OvmsConfig, clock, fn>>

\* time passes, or the clock is set
ClockChange ==
    /\ clock' \in Times \ {clock}
    /\ io' = Quiet("host")
    /\ UNCHANGED <<Agent, OvmsConfig, OvmsMetrics, fn>>

ConfigSet ==
    /\ \E t \in Tokens : OvmsConfig' = [user_token |-> t]
    /\ OvmsConfig' # OvmsConfig
    /\ io' = Quiet("host")
    /\ UNCHANGED <<Agent, OvmsMetrics, clock, fn>>

\* the scheduler delivers ticker.10, vehicle.on or vehicle.off
LowFrequencyEvent ==
    /\ \E event \in LowFrequencyEvents : PubSub[<<event, "sendTelemetryIfNecessary">>] > 0
    /\ Commit(sendTelemetryIfNecessary(Current("sendTelemetryIfNecessary")))

\* the scheduler delivers ticker.1
HighFrequencyEvent ==
    /\ PubSub[<<"ticker.1", "collectHighFrequencyMetrics">>] > 0
    /\ Len(collectedMetrics) < MaxBuffer
    /\ Commit(collectHighFrequencyMetrics(Current("collectHighFrequencyMetrics")))

\* script eval abrp.send(1) and abrp.send(0)
SendCommand ==
    \E onoff \in BOOLEAN :
        Commit(send(Current(IF onoff THEN "send(1)" ELSE "send(0)"), onoff))

OnetimeCommand ==
    /\ Commit(onetime(Current("onetime")))

InfoCommand == Commit(info(Current("info")))

ResetConfigCommand == Commit(resetConfig(Current("resetConfig")))

\* done(response) that forgets the last send on a non-200 status
HttpDone_rollback ==
    \E statusCode \in Statuses :
        /\ inflight
        /\ inflight' \in BOOLEAN
        /\ io' = IF statusCode # 200
                 THEN [Quiet("done") EXCEPT !.log = <<<<"warn", "Non 200 response from ABRP">>>>]
                 ELSE Quiet("done")
        /\ lastSentTelemetry' = IF statusCode # 200 THEN [utc |-> 0] ELSE lastSentTelemetry
        /\ UNCHANGED <<subscribedLowFrequency, subscribedHighFrequency, collectedMetrics,
                       PubSub, OvmsConfig, OvmsMetrics, clock, fn>>

\* fail(error) that sends the last record again
HttpFail_retry ==
    /\ inflight
    /\ inflight' = TRUE
    /\ io' = [Quiet("fail") EXCEPT
                  !.log = <<<<"error", "ABRP error">>>>,
                  !.requests = <<[token |-> "token-A", tlm |-> lastSentTelemetry]>>]
    /\ UNCHANGED <<subscribedLowFrequency, subscribedHighFrequency, collectedMetrics,
                   lastSentTelemetry, PubSub, OvmsConfig, OvmsMetrics, clock, fn>>

\* done(response) of an earlier request
HttpDone ==
    \E statusCode \in Statuses :
        /\ inflight
        /\ inflight' \in BOOLEAN
        /\ io' = IF statusCode # 200
                 THEN [Quiet("done") EXCEPT !.log = <<<<"warn", "Non 200 response from ABRP">>>>]
                 ELSE Quiet("done")
        /\ UNCHANGED <<subscribedLowFrequency, subscribedHighFrequency, collectedMetrics,
                       lastSentTelemetry, PubSub, OvmsConfig, OvmsMetrics, clock, fn>>

\* fail(error) of an earlier request
HttpFail ==
    /\ inflight
    /\ inflight' \in BOOLEAN
    /\ io' = [Quiet("fail") EXCEPT !.log = <<<<"error", "ABRP error">>>>]
    /\ UNCHANGED <<subscribedLowFrequency, subscribedHighFrequency, collectedMetrics,
                   lastSentTelemetry, PubSub, OvmsConfig, OvmsMetrics, clock, fn>>

Next ==
    \/ VehicleChange
    \/ ClockChange
    \/ ConfigSet
    \/ LowFrequencyEvent
    \/ HighFrequencyEvent
    \/ SendCommand
    \/ OnetimeCommand
    \/ InfoCommand
    \/ ResetConfigCommand
    \/ HttpDone
    \/ HttpFail

Spec == Init /\ [][Next]_vars

-----------------------------------------------------------------------------
(* The send policy as a function of two records: the argument cell fn      *)
(* starts with a current and a previous record and Evaluate applies        *)
(* isSignificantTelemetryChange and maxElapsedDuration to them.            *)

Optional(values) == {Undefined} \cup {Some(v) : v \in values}

\* the object with the properties whose optional value is there
Object(fields) ==
    [k \in {f \in DOMAIN fields : fields[f] # Undefined} |-> fields[k][1]]

CurrentRecords ==
    {Object([utc |-> Some(Epoch), soc |-> soc, is_charging |-> charging,
             is_parked |-> parked, is_dcfc |-> Some(dcfc), power |-> power,
             speed |-> speed]) :
        soc \in Optional({50000, 51000}), charging \in Optional(BOOLEAN),
        parked \in Optional(BOOLEAN), dcfc \in BOOLEAN,
        power \in Optional({-7004, -7400, -7600}),
        speed \in Optional({70000, 80000})}

PreviousRecords ==
    {Object([utc |-> Some(0), soc |-> soc, is_charging |-> charging,
             is_parked |-> parked, power |-> power]) :
        soc \in Optional({50000}), charging \in Optional(BOOLEAN),
        parked \in Optional(BOOLEAN),
        power \in Optional({-7004, -7600, -8700})}

InitPolicy ==
    /\ subscribedLowFrequency = FALSE
    /\ subscribedHighFrequency = FALSE
    /\ collectedMetrics = << >>
    /\ lastSentTelemetry = [utc |-> 0]
    /\ PubSub = NoRegistrations
    /\ OvmsConfig = << >>
    /\ OvmsMetrics = << >>
    /\ clock = Epoch
    /\ inflight = FALSE
    /\ io = Quiet("load")
    /\ fn \in [currentTelemetry : CurrentRecords, previousTelemetry : PreviousRecords,
               out : {<< >>}]

Evaluate ==
    /\ fn.out = << >>
    /\ fn' = [fn EXCEPT !.out =
                 <<[significant |->
                        isSignificantTelemetryChange(fn.currentTelemetry,
                                                     fn.previousTelemetry),
                    maxElapsedDuration |->
                        maxElapsedDuration(fn.currentTelemetry, fn.previousTelemetry)]>>]
    /\ UNCHANGED <<Agent, OvmsConfig, OvmsMetrics, clock, io>>

SpecPolicy == InitPolicy /\ [][Evaluate]_vars

-----------------------------------------------------------------------------
(* medianPowerMetrics as a function of its argument: the argument cell fn  *)
(* starts with an array and a rearrangement of it and EvaluateMedian calls *)
(* the function on both.                                                   *)

Reading(power, speed) == [power |-> power * Milli, speed |-> speed * Milli]

Readings ==
    {Reading(1, 10), Reading(3, 3), Reading(4, 2), Reading(10, 1), Reading(3, 7)}

Arrays == UNION {[1..n -> Readings] : n \in 0..MaxLen}

Rearrangements(array) ==
    IF Len(array) = 0 THEN {array}
    ELSE {[i \in 1..Len(array) |-> array[p[i]]] : p \in Permutations(1..Len(array))}

InitMedian ==
    /\ subscribedLowFrequency = FALSE
    /\ subscribedHighFrequency = FALSE
    /\ collectedMetrics = << >>
    /\ lastSentTelemetry = [utc |-> 0]
    /\ PubSub = NoRegistrations
    /\ OvmsConfig = << >>
    /\ OvmsMetrics = << >>
    /\ clock = Epoch
    /\ inflight = FALSE
    /\ io = Quiet("load")
    /\ \E given \in Arrays : \E other \in Rearrangements(given) :
           fn = [given |-> given, array |-> given, other |-> other, out |-> << >>]

\* medianPowerMetrics(array) and medianPowerMetrics(other); array is what
\* the first call leaves in its argument
EvaluateMedian ==
    /\ fn.out = << >>
    /\ fn' = [fn EXCEPT
                  !.out = <<[result |-> medianPowerMetrics(fn.array),
                             other |-> medianPowerMetrics(fn.other)]>>,
                  !.array = IF Len(fn.array) = 0 THEN fn.array
                            ELSE sortedCopy(fn.array).array]
    /\ UNCHANGED <<Agent, OvmsConfig, OvmsMetrics, clock, io>>

SpecMedian == InitMedian /\ [][EvaluateMedian]_vars

-----------------------------------------------------------------------------
(* Properties of send(onoff)                                               *)

StartedNotification == <<"info", "usr.abrp.status", "ABRP::started">>

StoppedNotification == <<"info", "usr.abrp.status", "ABRP::stopped">>

TokenNotSetNotification ==
    <<"error", "usr.abrp.status", "ABRP::config usr abrp.user_token not set">>

InSeq(x, seq) == \E i \in 1..Len(seq) : seq[i] = x

TokenSet == ~FalsyString(Get(OvmsConfig, "user_token"))

NoRegistration == \A p \in DOMAIN PubSub : PubSub[p] = 0

\* C1: send(true) with no user token configured raises the error
\* notification "ABRP::config usr abrp.user_token not set" and changes
\* nothing else: both subscription flags, the registered handlers, the
\* buffer and lastSentTelemetry stay as they were and no request is issued,
\* so a Stopped agent stays Stopped and a Running agent stays Running.
C1_SendWithoutTokenChangesNothing ==
    [][(io'.op = "send(1)" /\ ~TokenSet) =>
           /\ io'.notify = <<TokenNotSetNotification>>
           /\ io'.requests = << >>
           /\ UNCHANGED <<subscribedLowFrequency, subscribedHighFrequency,
                          collectedMetrics, lastSentTelemetry, PubSub,
                          OvmsConfig>>]_vars

\* send(true) was refused for the missing token while the agent was Running
\* with the high-frequency subscription on
C1_Witness ==
    /\ io.op = "send(1)"
    /\ io.notify = <<TokenNotSetNotification>>
    /\ subscribedLowFrequency
    /\ subscribedHighFrequency

\* C2: send(true) while Running (with a token) and send(false) while
\* Stopped are no-ops: flags, registered handlers, buffer and
\* lastSentTelemetry are unchanged, no request is issued and neither
\* ABRP::started nor ABRP::stopped is raised.
C2_RepeatedSendIsNoOp ==
    [][(\/ io'.op = "send(1)" /\ TokenSet /\ subscribedLowFrequency
        \/ io'.op = "send(0)" /\ ~subscribedLowFrequency) =>
           /\ UNCHANGED <<subscribedLowFrequency, subscribedHighFrequency,
                          collectedMetrics, lastSentTelemetry, PubSub>>
           /\ io'.requests = << >>
           /\ ~InSeq(StartedNotification, io'.notify)
           /\ ~InSeq(StoppedNotification, io'.notify)]_vars

\* send(true) found the agent Running, with a sample in the buffer
C2_Witness ==
    /\ io.op = "send(1)"
    /\ io.log = <<<<"warn", "Already running !">>>>
    /\ subscribedLowFrequency
    /\ Len(collectedMetrics) > 0

\* C3: after send(false) on a Running agent both subscription flags are
\* false and no handler of the agent is registered on any event, whatever
\* the high-frequency flag was before.
C3_StopUnsubscribesEverything ==
    [][(io'.op = "send(0)" /\ subscribedLowFrequency) =>
           /\ ~subscribedLowFrequency'
           /\ ~subscribedHighFrequency'
           /\ NoRegistration']_vars

\* the agent was stopped with a sample in the buffer, that is with the
\* high-frequency subscription on since the last low-frequency evaluation
C3_Witness ==
    /\ io.op = "send(0)"
    /\ io.notify = <<StoppedNotification>>
    /\ Len(collectedMetrics) > 0
    /\ ~subscribedHighFrequency

\* C4: ABRP::started is raised exactly on the steps that take the agent from
\* Stopped to Running and ABRP::stopped exactly on the steps that take it
\* from Running to Stopped (so the two alternate, starting with
\* ABRP::started, and the agent is Running iff the last one was
\* ABRP::started).
C4_NotificationsFollowTransitions ==
    [][/\ InSeq(StartedNotification, io'.notify)
              <=> (~subscribedLowFrequency /\ subscribedLowFrequency')
       /\ InSeq(StoppedNotification, io'.notify)
              <=> (subscribedLowFrequency /\ ~subscribedLowFrequency')]_vars

\* the agent was started again after it had run and sent before
C4_Witness ==
    /\ io.op = "send(1)"
    /\ io.notify = <<StartedNotification>>
    /\ lastSentTelemetry.utc # 0
    /\ subscribedLowFrequency

-----------------------------------------------------------------------------
(* Properties of the send policy                                           *)

LowFrequencyStep == io'.op = "sendTelemetryIfNecessary"

\* the record a low-frequency evaluation builds in the current state
TickTelemetry == smoothedTelemetry(Current("sendTelemetryIfNecessary"))

\* sendTelemetry was called: it issued the request or, with no token,
\* logged the error
TransmitInvoked(o) ==
    \/ o.requests # << >>
    \/ InSeq(<<"error", "config usr abrp.user_token not set">>, o.log)

Evaluated == fn # << >> /\ fn.out # << >>

\* C5: with a token configured, a low-frequency evaluation whose record
\* differs significantly from lastSentTelemetry transmits that record in the
\* same evaluation, for every elapsed time: positive, zero or negative.
C5_SignificantChangeAlwaysSent ==
    [][(LowFrequencyStep /\ TokenSet) =>
           LET cur == TickTelemetry
           IN  isSignificantTelemetryChange(cur, lastSentTelemetry) =>
                   /\ Len(io'.requests) = 1
                   /\ io'.requests[1].tlm = cur]_vars

\* C6: the maximum interval is the first match of: significant change 0;
\* speed above 70 km/h 5 s; not parked, or DC fast charging, 160 s;
\* charging 1800 s; otherwise 86400 s.
C6_MaxIntervalFirstMatch ==
    Evaluated =>
        LET cur == fn.currentTelemetry
            out == fn.out[1]
        IN  out.maxElapsedDuration =
                IF out.significant THEN 0
                ELSE IF "speed" \in DOMAIN cur /\ cur.speed > 70 * Milli
                THEN 5 * Milli
                ELSE IF \/ ~("is_parked" \in DOMAIN cur /\ cur.is_parked)
                        \/ ("is_dcfc" \in DOMAIN cur /\ cur.is_dcfc)
                THEN 160 * Milli
                ELSE IF "is_charging" \in DOMAIN cur /\ cur.is_charging
                THEN 1800 * Milli
                ELSE 86400 * Milli

\* 80 km/h and no significant change: 5 s
C6_Witness ==
    /\ Evaluated
    /\ ~fn.out[1].significant
    /\ Get(fn.currentTelemetry, "speed") = <<80 * Milli>>
    /\ fn.out[1].maxElapsedDuration = 5 * Milli

C9_PowerChangeWithinOneKwNotSignificant ==
    (/\ Evaluated
     /\ Get(fn.currentTelemetry, "is_charging") = <<TRUE>>
     /\ Get(fn.currentTelemetry, "soc") = Get(fn.previousTelemetry, "soc")
     /\ Get(fn.currentTelemetry, "is_charging") = Get(fn.previousTelemetry, "is_charging")
     /\ Get(fn.currentTelemetry, "is_parked") = Get(fn.previousTelemetry, "is_parked")
     /\ "power" \in DOMAIN fn.currentTelemetry
     /\ "power" \in DOMAIN fn.previousTelemetry
     /\ Abs(fn.currentTelemetry.power - fn.previousTelemetry.power) <= 1 * Milli)
        => ~fn.out[1].significant

\* C10: a low-frequency evaluation calls sendTelemetry and sets
\* lastSentTelemetry to a copy of the current record iff elapsed >= the
\* maximum interval; otherwise it issues no request and leaves
\* lastSentTelemetry alone; and no other operation modifies
\* lastSentTelemetry.
C10_SendIffElapsed ==
    [][/\ LowFrequencyStep =>
              LET cur == TickTelemetry
                  elapsed == cur.utc - lastSentTelemetry.utc
              IN  IF elapsed >= maxElapsedDuration(cur, lastSentTelemetry)
                  THEN /\ TransmitInvoked(io')
                       /\ TokenSet =>
                              io'.requests = <<[token |-> OvmsConfig.user_token,
                                                tlm |-> cur]>>
                       /\ lastSentTelemetry' = cur
                  ELSE /\ ~TransmitInvoked(io')
                       /\ UNCHANGED lastSentTelemetry
       /\ ~LowFrequencyStep => UNCHANGED lastSentTelemetry]_vars

\* an evaluation exactly 86400 s after the last send transmitted
C10_Witness ==
    /\ io.op = "sendTelemetryIfNecessary"
    /\ io.tick = <<[elapsed |-> 86400 * Milli, maxElapsedDuration |-> 86400 * Milli]>>
    /\ Len(io.requests) = 1
    /\ lastSentTelemetry = io.requests[1].tlm
    /\ lastSentTelemetry.utc = clock

-----------------------------------------------------------------------------
(* Properties of transmission and of the sample buffer                     *)

HighFrequencyStep == io'.op = "collectHighFrequencyMetrics"

CallbackStep == io'.op \in {"done", "fail"}

HighFrequencyRegistered == PubSub[<<"ticker.1", "collectHighFrequencyMetrics">>] > 0

\* C11: lastSentTelemetry is the sentinel or the record of the most recent
\* HTTP request. Stated on the steps that can break it: a step that issues
\* a request leaves lastSentTelemetry equal to the record of that request,
\* and a step that changes lastSentTelemetry issues a request that carries
\* the new value.
C11_LastSentIsLastRequest ==
    [][/\ io'.requests # << >> =>
              lastSentTelemetry' = io'.requests[Len(io'.requests)].tlm
       /\ lastSentTelemetry' # lastSentTelemetry =>
              /\ io'.requests # << >>
              /\ lastSentTelemetry' = io'.requests[Len(io'.requests)].tlm]_vars

\* C12: after every low-frequency evaluation collectHighFrequencyMetrics is
\* subscribed on ticker.1 iff the record built by the evaluation does not
\* say parked (is_parked false or absent), whether or not it transmitted.
C12_HighFrequencyIffNotParked ==
    [][LowFrequencyStep =>
           LET parked == Truthy(Get(TickTelemetry, "is_parked"))
           IN  /\ subscribedHighFrequency' <=> ~parked
               /\ HighFrequencyRegistered' <=> ~parked]_vars

\* an evaluation that sent nothing turned the sampling on
C12_Witness ==
    /\ io.op = "sendTelemetryIfNecessary"
    /\ io.requests = << >>
    /\ io.log = << >>
    /\ subscribedHighFrequency
    /\ HighFrequencyRegistered
    /\ "v.e.parktime" \in DOMAIN OvmsMetrics

\* C13: every HTTP request carries the non-empty user_token the
\* configuration holds at the moment of the call; with no token at that
\* moment no request is issued and the caller carries on (the evaluation
\* still records the record as sent and updates the sampling subscription).
C13_RequestsCarryTheToken ==
    [][/\ \A i \in 1..Len(io'.requests) :
              /\ TokenSet
              /\ io'.requests[i].token = OvmsConfig.user_token
              /\ io'.requests[i].token # ""
       /\ ~TokenSet => io'.requests = << >>
       /\ (LowFrequencyStep /\ ~TokenSet) =>
              subscribedHighFrequency' <=> ~Truthy(Get(TickTelemetry, "is_parked"))]_vars

\* a send decision was taken with the token gone: the error is logged and
\* nothing is requested
C13_Witness ==
    /\ io.op = "sendTelemetryIfNecessary"
    /\ io.log = <<<<"error", "config usr abrp.user_token not set">>>>
    /\ io.requests = << >>
    /\ subscribedLowFrequency
    /\ lastSentTelemetry.utc = clock

\* C14: no retry: every step issues at most one request, only a
\* low-frequency evaluation whose elapsed time has reached the interval or a
\* onetime() issues one, and the callbacks of a request issue none.
C14_NoRetry ==
    [][/\ Len(io'.requests) <= 1
       /\ io'.requests # << >> =>
              \/ io'.op = "onetime"
              \/ /\ LowFrequencyStep
                 /\ io'.tick[1].elapsed >= io'.tick[1].maxElapsedDuration
       /\ CallbackStep => io'.requests = << >>]_vars

\* a request failed while the agent was running and nothing was sent again
C14_Witness ==
    /\ io.op = "fail"
    /\ io.requests = << >>
    /\ subscribedLowFrequency
    /\ ~inflight

\* C15: the callbacks of a request (done with 200, done with another
\* status, fail) leave lastSentTelemetry, collectedMetrics and both
\* subscription flags unchanged, also after the agent was stopped.
C15_CallbacksTouchNothing ==
    [][CallbackStep =>
           UNCHANGED <<lastSentTelemetry, collectedMetrics, subscribedLowFrequency,
                       subscribedHighFrequency, PubSub>>]_vars

\* a non-200 response arrived after the agent was stopped and the last
\* sent record is still there
C15_Witness ==
    /\ io.op = "done"
    /\ io.log = <<<<"warn", "Non 200 response from ABRP">>>>
    /\ ~subscribedLowFrequency
    /\ lastSentTelemetry.utc # 0

\* C19: after every low-frequency evaluation collectedMetrics is empty.
C19_EvaluationDrainsBuffer ==
    [][LowFrequencyStep => collectedMetrics' = << >>]_vars

\* an evaluation consumed a sample (the speed it sent is the sample's, not
\* the vehicle's) and left the buffer empty
C19_Witness ==
    /\ io.op = "sendTelemetryIfNecessary"
    /\ collectedMetrics = << >>
    /\ Len(io.requests) = 1
    /\ "v.p.speed" \in DOMAIN OvmsMetrics
    /\ io.requests[1].tlm.speed # OvmsMetrics["v.p.speed"]

\* C20: a ticker.1 sample appends exactly one {power, speed} entry when
\* v.b.power and v.p.speed are both there and leaves the buffer unchanged
\* otherwise; it changes neither lastSentTelemetry nor the subscriptions and
\* issues no request.
C20_SampleAppendsOne ==
    [][HighFrequencyStep =>
           /\ collectedMetrics' =
                  IF "v.b.power" \in DOMAIN OvmsMetrics /\ "v.p.speed" \in DOMAIN OvmsMetrics
                  THEN Append(collectedMetrics,
                              [power |-> OvmsMetrics["v.b.power"],
                               speed |-> OvmsMetrics["v.p.speed"]])
                  ELSE collectedMetrics
           /\ io'.requests = << >>
           /\ UNCHANGED <<lastSentTelemetry, subscribedLowFrequency,
                          subscribedHighFrequency, PubSub>>]_vars

\* a sample was taken on a vehicle that reports no speed
C20_Witness ==
    /\ io.op = "collectHighFrequencyMetrics"
    /\ "v.b.power" \in DOMAIN OvmsMetrics
    /\ "v.p.speed" \notin DOMAIN OvmsMetrics
    /\ collectedMetrics = << >>

-----------------------------------------------------------------------------
(* Properties of medianPowerMetrics                                        *)

\* the index, counted from 0, the result is taken from
MiddleIndex(n) == IF n % 2 = 1 THEN n \div 2 ELSE n \div 2 - 1

\* x can stand at index k (from 0) of array sorted ascending by power
AtSortedIndex(x, k, array) ==
    /\ \E i \in 1..Len(array) : array[i] = x
    /\ Cardinality({i \in 1..Len(array) : array[i].power < x.power}) <= k
    /\ Cardinality({i \in 1..Len(array) : array[i].power <= x.power}) >= k + 1

C17_EvenMedianIsMean ==
    (Evaluated /\ Len(fn.given) > 0 /\ Len(fn.given) % 2 = 0) =>
        LET sorted == SortByPower(fn.given)
            lower == sorted[Len(sorted) \div 2]
            upper == sorted[Len(sorted) \div 2 + 1]
        IN  /\ Len(fn.out[1].result) = 1
            /\ 2 * fn.out[1].result[1].power = lower.power + upper.power
            /\ 2 * fn.out[1].result[1].speed = lower.speed + upper.speed

\* C18: two arrays that are rearrangements of one another give results of
\* equal power, and of equal speed too when the entries of that power all
\* have one speed; the argument is left as it was given.
C18_MedianPowerIndependentOfOrder ==
    Evaluated =>
        /\ fn.array = fn.given
        /\ Len(fn.out[1].result) = Len(fn.out[1].other)
        /\ Len(fn.out[1].result) = 1 =>
               LET x == fn.out[1].result[1]
                   y == fn.out[1].other[1]
               IN  /\ x.power = y.power
                   /\ (\A i \in 1..Len(fn.given) :
                           fn.given[i].power = x.power => fn.given[i].speed = x.speed)
                          => x.speed = y.speed

\* an array of the greatest length with a repeated entry at the median,
\* given in two different orders
C18_Witness ==
    /\ Evaluated
    /\ Len(fn.given) = MaxLen
    /\ fn.given # fn.other
    /\ fn.given[1] = fn.given[2]
    /\ fn.out[1].result = <<fn.given[1]>>
    /\ fn.out[1].other = fn.out[1].result

\* C18 as stated: rearrangements give results of equal power and equal
\* speed, repeated powers included, and the argument is left as given.
C18_MedianIndependentOfOrder ==
    Evaluated =>
        /\ fn.array = fn.given
        /\ fn.out[1].result = fn.out[1].other

-----------------------------------------------------------------------------
(* Properties of the records sent                                          *)

\* the signals getOVMSMetric's default cases ask the registry for
DefaultSignals(parameter) ==
    CASE parameter = "utc" -> {}
      [] parameter = "soc" -> {"v.b.soc"}
      [] parameter = "power" -> {"v.b.power"}
      [] parameter = "speed" -> {"v.p.speed"}
      [] parameter = "lat" -> {"v.p.latitude"}
      [] parameter = "lon" -> {"v.p.longitude"}
      [] parameter = "is_charging" -> {"v.c.charging"}
      [] parameter = "is_dcfc" -> {"v.c.mode"}
      [] parameter = "is_parked" -> {"v.e.parktime"}
      [] parameter = "capacity" -> {"v.b.cac", "v.b.voltage.nominal"}
      [] parameter = "kwh_charged" -> {"v.c.charging", "v.c.kwh"}
      [] parameter = "soh" -> {"v.b.soh"}
      [] parameter = "heading" -> {"v.p.direction"}
      [] parameter = "elevation" -> {"v.p.altitude"}
      [] parameter = "ext_temp" -> {"v.e.temp"}
      [] parameter = "batt_temp" -> {"v.b.temp"}
      [] parameter = "voltage" -> {"v.b.voltage"}
      [] parameter = "current" -> {"v.b.current"}
      [] parameter = "odometer" -> {"v.p.odometer"}
      [] OTHER -> {"v.b.range.est"}

\* the record of a low-frequency evaluation, written out from the buffer
\* and the mapper's record
ExpectedTickTelemetry ==
    LET telemetry == createTelemetry
    IN  IF Len(collectedMetrics) = 0 THEN telemetry
        ELSE LET sample == medianPowerMetrics(collectedMetrics)[1]
             IN  Put(Put(telemetry, "power", toFixed(sample.power, 2)),
                     "speed", toFixed(sample.speed, 0))

\* C21: on a low-frequency evaluation with a non-empty buffer the record's
\* power and speed are the median sample's, power rounded to 2 decimals and
\* speed to an integer, and that record is the one the interval is computed
\* from, the one transmitted and the one kept in lastSentTelemetry; with an
\* empty buffer the record is the mapper's.
C21_SmoothedRecordIsUsed ==
    [][LowFrequencyStep =>
           LET record == ExpectedTickTelemetry
           IN  /\ io'.tick[1].maxElapsedDuration
                      = maxElapsedDuration(record, lastSentTelemetry)
               /\ \A i \in 1..Len(io'.requests) : io'.requests[i].tlm = record
               /\ lastSentTelemetry' \in {lastSentTelemetry, record}]_vars

\* the sample 20.006 kW at 80 km/h was sent as 20.01 kW from a vehicle
\* that had stopped meanwhile
C21_Witness ==
    /\ io.op = "sendTelemetryIfNecessary"
    /\ Len(io.requests) = 1
    /\ io.requests[1].tlm.power = 20010
    /\ io.requests[1].tlm.speed = 80 * Milli
    /\ OvmsMetrics["v.b.power"] # 20006
    /\ lastSentTelemetry = io.requests[1].tlm

C26_RecordsAreRounded ==
    [][LowFrequencyStep => \A i \in 1..Len(io'.requests) :
           LET t == io'.requests[i].tlm
           IN  /\ "power" \in DOMAIN t => t.power % 10 = 0
               /\ "soc" \in DOMAIN t => t.soc % Milli = 0
               /\ "speed" \in DOMAIN t => t.speed % Milli = 0]_vars

\* C29: onetime() with a token issues exactly one request, carrying the
\* record the mapper builds, and info() issues none; neither changes the
\* flags, the registrations, the buffer or lastSentTelemetry.
C29_OnetimeAndInfo ==
    [][/\ (io'.op = "onetime" /\ TokenSet) =>
              io'.requests = <<[token |-> OvmsConfig.user_token, tlm |-> createTelemetry]>>
       /\ io'.op = "info" => io'.requests = << >>
       /\ io'.op \in {"onetime", "info"} =>
              UNCHANGED <<subscribedLowFrequency, subscribedHighFrequency, PubSub,
                          collectedMetrics, lastSentTelemetry>>]_vars

\* onetime() sent a record while the agent was running with a sample in
\* the buffer and an older record in lastSentTelemetry
C29_Witness ==
    /\ io.op = "onetime"
    /\ Len(io.requests) = 1
    /\ subscribedLowFrequency
    /\ Len(collectedMetrics) > 0
    /\ lastSentTelemetry.utc # 0
    /\ lastSentTelemetry # io.requests[1].tlm

-----------------------------------------------------------------------------
(* createTelemetry as a function of the registry: the registry starts as   *)
(* any of the vehicles below, reporting any subset of the signals that     *)
(* firmwares leave out, and BuildTelemetry calls the mapper on it.         *)

TelemetryVehicleTypes == {"KS", "NL"}

\* charging flag, charge state and charge mode: idle, DC charging, idle with
\* the mode left on performance, regenerative braking, topping off
ChargingSituations ==
    {<<FALSE, "stopped", "standard">>, <<TRUE, "charging", "performance">>,
     <<FALSE, "stopped", "performance">>, <<TRUE, "stopped", "standard">>,
     <<FALSE, "topoff", "standard">>}

\* instrument range and ideal range in km
RangeReadings == {<<150400, 200600>>, <<150400, 160400>>, <<0, 200600>>}

\* signals a firmware may not report
OptionalSignals ==
    {"v.b.cac", "v.b.voltage.nominal", "v.c.charging", "v.c.kwh", "v.c.mode",
     "v.c.state", "v.b.range.est", "xnl.v.b.range.instrument", "v.b.soc",
     "xnl.v.b.soc.instrument"}

TelemetryRegistry(type, situation, ranges, missing) ==
    LET all == ("v.type" :> type)
                @@ ("xnl.v.b.range.instrument" :> ranges[1])
                @@ ("v.b.range.ideal" :> ranges[2])
                @@ Activity(50000, 0, situation[1], situation[2], situation[3], 0, -7004)
                @@ StaticSignals
    IN  Restrict(all, DOMAIN all \ missing)

TelemetryRegistries ==
    {TelemetryRegistry(type, situation, ranges, missing) :
        type \in TelemetryVehicleTypes, situation \in ChargingSituations,
        ranges \in RangeReadings, missing \in SUBSET OptionalSignals}

InitTelemetry ==
    /\ subscribedLowFrequency = FALSE
    /\ subscribedHighFrequency = FALSE
    /\ collectedMetrics = << >>
    /\ lastSentTelemetry = [utc |-> 0]
    /\ PubSub = NoRegistrations
    /\ OvmsConfig = << >>
    /\ OvmsMetrics \in TelemetryRegistries
    /\ clock = Epoch
    /\ inflight = FALSE
    /\ io = Quiet("load")
    /\ fn = [out |-> << >>]

BuildTelemetry ==
    /\ fn.out = << >>
    /\ fn' = [fn EXCEPT !.out = <<createTelemetry>>]
    /\ UNCHANGED <<Agent, OvmsConfig, OvmsMetrics, clock, io>>

SpecTelemetry == InitTelemetry /\ [][BuildTelemetry]_vars

-----------------------------------------------------------------------------
(* round as a function of its arguments                                    *)

\* numbers from -MaxNumber to MaxNumber thousandths are rounded
MaxNumber == 1100

\* precisions up to MaxPrecision decimals are asked for
MaxPrecision == 3

\* 12.346 stands for the 12.34567 of the tests
Numbers == (-MaxNumber..MaxNumber) \cup {12346, 12345, -7004, 20006}

InitRound ==
    /\ subscribedLowFrequency = FALSE
    /\ subscribedHighFrequency = FALSE
    /\ collectedMetrics = << >>
    /\ lastSentTelemetry = [utc |-> 0]
    /\ PubSub = NoRegistrations
    /\ OvmsConfig = << >>
    /\ OvmsMetrics = << >>
    /\ clock = Epoch
    /\ inflight = FALSE
    /\ io = Quiet("load")
    /\ fn \in [number : Optional(Numbers), precision : Optional(0..MaxPrecision),
               out : {<< >>}]

EvaluateRound ==
    /\ fn.out = << >>
    /\ fn' = [fn EXCEPT !.out =
                 <<[once |-> round(fn.number, fn.precision),
                    twice |-> round(round(fn.number, fn.precision), fn.precision)]>>]
    /\ UNCHANGED <<Agent, OvmsConfig, OvmsMetrics, clock, io>>

SpecRound == InitRound /\ [][EvaluateRound]_vars

-----------------------------------------------------------------------------
(* omitNil as a function of its argument: objects over the keys of the     *)
(* test, a key holding a string, a number, a boolean, null or undefined    *)

\* a key is missing, or holds null/undefined (<< >>) or a value
Property(values) == {<<FALSE, Undefined>>} \cup {<<TRUE, v>> : v \in Optional(values)}

ObjectOf(foo, bar, spaz, qux) ==
    LET properties == [foo |-> foo, bar |-> bar, spaz |-> spaz, qux |-> qux]
    IN  [k \in {j \in DOMAIN properties : properties[j][1]} |-> properties[k][2]]

Objects ==
    {ObjectOf(foo, bar, spaz, qux) :
        foo \in Property({"", "foo"}), bar \in Property({"bar"}),
        spaz \in Property(BOOLEAN), qux \in Property({0, 5})}

InitOmitNil ==
    /\ subscribedLowFrequency = FALSE
    /\ subscribedHighFrequency = FALSE
    /\ collectedMetrics = << >>
    /\ lastSentTelemetry = [utc |-> 0]
    /\ PubSub = NoRegistrations
    /\ OvmsConfig = << >>
    /\ OvmsMetrics = << >>
    /\ clock = Epoch
    /\ inflight = FALSE
    /\ io = Quiet("load")
    /\ fn \in [given : Objects, out : {<< >>}]

EvaluateOmitNil ==
    /\ fn.out = << >>
    /\ fn' = [fn EXCEPT !.out = <<omitNil(fn.given)>>]
    /\ UNCHANGED <<Agent, OvmsConfig, OvmsMetrics, clock, io>>

SpecOmitNil == InitOmitNil /\ [][EvaluateOmitNil]_vars

-----------------------------------------------------------------------------
(* Properties of the mapper, of round and of omitNil                       *)

\* the record BuildTelemetry built
Built == fn.out[1]

\* the signals a parameter is documented to come from on a vehicle type:
\* the Nissan Leaf cases of getOVMSMetric, the default cases otherwise
BackingSignals(type, parameter) ==
    IF type = "NL" /\ parameter = "soc" THEN {"xnl.v.b.soc.instrument"}
    ELSE IF type = "NL" /\ parameter = "is_charging" THEN {"v.c.state"}
    ELSE IF type = "NL" /\ parameter = "soh" THEN {"xnl.v.b.soh.instrument"}
    ELSE IF type = "NL" /\ parameter = "est_battery_range"
    THEN {"xnl.v.b.range.instrument", "v.b.range.ideal"}
    ELSE DefaultSignals(parameter)

\* C22: createTelemetry includes a field iff every backing signal of the
\* field, for the current vehicle type, is available; capacity and
\* kwh_charged are there only when both their signals are.
C22_FieldIffBackingSignals ==
    Evaluated =>
        \A parameter \in IternioParameters :
            parameter \in DOMAIN Built
                <=> BackingSignals(OvmsMetrics["v.type"], parameter) \subseteq DOMAIN OvmsMetrics

\* C24: is_dcfc is true only if is_charging is in the record and true and
\* the charge mode is the fast one; is_dcfc is in no record unless
\* is_charging is in it and true.
C24_DcfcOnlyWhenCharging ==
    Evaluated =>
        /\ ("is_dcfc" \in DOMAIN Built /\ Built.is_dcfc) =>
               /\ Get(Built, "is_charging") = <<TRUE>>
               /\ OvmsMetrics["v.c.mode"] = "performance"
        /\ "is_dcfc" \in DOMAIN Built => Get(Built, "is_charging") = <<TRUE>>

\* C25: is_charging is true iff v.c.state is charging or topoff, for every
\* vehicle type and so for the Nissan Leaf, whose case of getOVMSMetric
\* holds the rule; the charging flag of regenerative braking does not make
\* it true.
C25_ChargingFromChargeState ==
    (Evaluated /\ OvmsMetrics["v.type"] = "NL" /\ "v.c.state" \in DOMAIN OvmsMetrics) =>
        Get(Built, "is_charging") = <<OvmsMetrics["v.c.state"] \in {"charging", "topoff"}>>

\* C28: on a Nissan Leaf reporting xnl.v.b.range.instrument and
\* v.b.range.ideal, est_battery_range is the rounded ideal range when that
\* is above 110% of the rounded instrument range (0 when the reading is 0),
\* and the rounded instrument range otherwise.
C28_LeafRange ==
    (/\ Evaluated
     /\ OvmsMetrics["v.type"] = "NL"
     /\ {"xnl.v.b.range.instrument", "v.b.range.ideal"} \subseteq DOMAIN OvmsMetrics) =>
        LET instrument == toFixed(OvmsMetrics["xnl.v.b.range.instrument"], 0)
            ideal == toFixed(OvmsMetrics["v.b.range.ideal"], 0)
        IN  Get(Built, "est_battery_range")
                = <<IF 10 * ideal > 11 * instrument THEN ideal ELSE instrument>>

\* C27: round applied twice gives what round applied once gives; round(0, p)
\* is 0 and round of null or undefined is the argument; the result is the
\* nearest number with p decimals (no decimals when p is omitted):
\* round(12.34567) = 12 and round(12.34567, 2) = 12.35.
C27_RoundIdempotentFalsyPreserving ==
    Evaluated =>
        LET once == fn.out[1].once
            unit == Pow10(3 - (IF fn.precision = Undefined THEN 0 ELSE fn.precision[1]))
        IN  /\ fn.out[1].twice = once
            /\ fn.number = <<0>> => once = <<0>>
            /\ fn.number = Undefined => once = Undefined
            /\ fn.number # Undefined =>
                   /\ once # Undefined
                   /\ once[1] % unit = 0
                   /\ 2 * Abs(once[1] - fn.number[1]) <= unit
            /\ (fn.number = <<12346>> /\ fn.precision = Undefined) => once = <<12000>>
            /\ (fn.number = <<12346>> /\ fn.precision = <<2>>) => once = <<12350>>

\* 12.346 was rounded to 2 decimals, twice
C27_Witness ==
    /\ Evaluated
    /\ fn.number = <<12346>>
    /\ fn.precision = <<2>>
    /\ fn.out[1].twice = <<12350>>

\* C30: omitNil(obj) returns an object with exactly the keys of obj that
\* hold neither null nor undefined, each with obj's value (0, false and ''
\* are kept), and obj holds after the call what it held before.
C30_OmitNil ==
    Evaluated =>
        LET out == fn.out[1]
        IN  /\ DOMAIN out.cloned = {k \in DOMAIN fn.given : fn.given[k] # Undefined}
            /\ \A k \in DOMAIN out.cloned : out.cloned[k] = fn.given[k]
            /\ DOMAIN out.obj = DOMAIN fn.given
            /\ \A k \in DOMAIN fn.given : out.obj[k] = fn.given[k]

\* the object of the test, with the falsy '' and 0: spaz, holding null, is
\* left out and the argument still has it
C30_Witness ==
    /\ Evaluated
    /\ DOMAIN fn.given = {"foo", "bar", "spaz", "qux"}
    /\ fn.given.foo = <<"">>
    /\ fn.given.bar = <<"bar">>
    /\ fn.given.spaz = Undefined
    /\ fn.given.qux = <<0>>
    /\ DOMAIN fn.out[1].cloned = {"foo", "bar", "qux"}
    /\ "spaz" \in DOMAIN fn.out[1].obj

-----------------------------------------------------------------------------
(* Properties of the subscriptions and of the buffer across stop and start *)

\* C32: while the agent is Stopped no event handler of the agent runs: a
\* step from a Stopped state is not a low-frequency evaluation nor a
\* sample, appends nothing to the buffer, and issues a request only if it is
\* an onetime() command.
C32_StoppedIsQuiet ==
    [][~subscribedLowFrequency =>
           /\ io'.op \notin Handlers
           /\ io'.requests # << >> => io'.op = "onetime"
           /\ Len(collectedMetrics') <= Len(collectedMetrics)]_vars

\* an agent that ran, sampled and sent, and was stopped, sent a record on
\* an onetime() command
C32_Witness ==
    /\ ~subscribedLowFrequency
    /\ io.op = "onetime"
    /\ Len(io.requests) = 1
    /\ lastSentTelemetry.utc # 0
    /\ Len(collectedMetrics) > 0

\* C33: subscribedHighFrequency implies subscribedLowFrequency in every
\* reachable state.
C33_HighFrequencyOnlyWhileRunning == subscribedHighFrequency => subscribedLowFrequency

\* a Running agent was stopped while sampling: the stop command took both
\* flags down
C33_Witness ==
    /\ io.op = "send(0)"
    /\ InSeq(StoppedNotification, io.notify)
    /\ Len(collectedMetrics) > 0
    /\ ~subscribedHighFrequency
    /\ ~subscribedLowFrequency

\* C34: the flags agree with the scheduler's registry and no handler is
\* registered twice: sendTelemetryIfNecessary is registered once on each of
\* ticker.10, vehicle.on and vehicle.off when subscribedLowFrequency and on
\* none otherwise, collectHighFrequencyMetrics once on ticker.1 when
\* subscribedHighFrequency and not otherwise, and nothing else is registered.
C34_FlagsAgreeWithRegistry ==
    \A event \in Events :
        /\ PubSub[<<event, "sendTelemetryIfNecessary">>]
               = IF subscribedLowFrequency /\ event \in LowFrequencyEvents THEN 1 ELSE 0
        /\ PubSub[<<event, "collectHighFrequencyMetrics">>]
               = IF subscribedHighFrequency /\ event = "ticker.1" THEN 1 ELSE 0

\* a second evaluation of a moving vehicle ran while the sampler was
\* already registered
C34_Witness ==
    /\ io.op = "sendTelemetryIfNecessary"
    /\ subscribedHighFrequency
    /\ PubSub[<<"ticker.1", "collectHighFrequencyMetrics">>] = 1
    /\ io.tick[1].elapsed < Epoch

\* C35: no sample captured before a stop command is in the buffer after the
\* agent is started again (no sample is taken while Stopped, so the buffer
\* is empty when send(1) has started the agent).
C35_NoSampleSurvivesRestart ==
    [][(io'.op = "send(1)" /\ ~subscribedLowFrequency /\ subscribedLowFrequency') =>
           collectedMetrics' = << >>]_vars

\* C36: with a token configured, the low-frequency evaluation that finds
\* lastSentTelemetry at the sentinel {utc: 0} transmits: elapsed is the
\* clock, no interval is longer than 86400 s, one request carries the record
\* and lastSentTelemetry becomes that record.
C36_FirstEvaluationTransmits ==
    [][(LowFrequencyStep /\ lastSentTelemetry = [utc |-> 0] /\ TokenSet) =>
           /\ io'.tick[1].elapsed = clock
           /\ io'.tick[1].maxElapsedDuration <= 86400 * Milli
           /\ Len(io'.requests) = 1
           /\ io'.requests[1].tlm = lastSentTelemetry'
           /\ lastSentTelemetry'.utc = clock]_vars

\* the first evaluation of a parked, idle vehicle transmitted
C36_Witness ==
    /\ io.op = "sendTelemetryIfNecessary"
    /\ Len(io.requests) = 1
    /\ io.tick[1].elapsed = clock
    /\ Get(lastSentTelemetry, "is_parked") = <<TRUE>>
    /\ Get(lastSentTelemetry, "is_charging") = <<FALSE>>

-----------------------------------------------------------------------------
(* The agent under a clock that only advances and a scheduler that keeps   *)
(* delivering ticker.10 to a registered handler                            *)

\* Date.now(): ten days after the epoch, then 23 h, 24 h and 48 h later
LiveTimes == {Epoch + d * Milli : d \in {0, 82800, 86400, 2 * 86400}}

\* the last clock value of the runs explored
Horizon == Epoch + 2 * 86400 * Milli

\* time passes
ClockAdvance ==
    /\ clock' \in {t \in LiveTimes : t > clock}
    /\ io' = Quiet("host")
    /\ UNCHANGED <<Agent, OvmsConfig, OvmsMetrics, fn>>

\* the agent is loaded with a token configured
InitLive == Init /\ OvmsConfig # << >>

NextLive ==
    \/ VehicleChange
    \/ ClockAdvance
    \/ LowFrequencyEvent
    \/ HighFrequencyEvent
    \/ SendCommand
    \/ HttpDone
    \/ HttpFail

\* ENABLED <<LowFrequencyEvent>>_vars: the handler is registered and its
\* run would change the state
LowFrequencyEventEnabled ==
    /\ \E event \in LowFrequencyEvents : PubSub[<<event, "sendTelemetryIfNecessary">>] > 0
    /\ sendTelemetryIfNecessary(Current("sendTelemetryIfNecessary"))
           # [Current("sendTelemetryIfNecessary") EXCEPT !.io = io]

\* WF_vars(LowFrequencyEvent) written out: ticker.10 keeps being delivered
\* to a handler that stays registered
LowFrequencyEventFairness ==
    []<>(~LowFrequencyEventEnabled) \/ []<><<io'.op = "sendTelemetryIfNecessary">>_vars

SpecLive ==
    /\ InitLive
    /\ [][NextLive]_vars
    /\ WF_vars(ClockAdvance)
    /\ LowFrequencyEventFairness

\* the last step was a low-frequency evaluation that issued a request
Transmitted == io.op = "sendTelemetryIfNecessary" /\ io.requests # << >>

\* C37: from any state of a Running agent with a token from which another
\* 86400 s can pass, a low-frequency evaluation eventually issues a request,
\* unless the agent is stopped or the token removed; and an evaluation at
\* which 86400 s or more have elapsed since lastSentTelemetry issues one
\* whatever the vehicle state.
C37_TransmissionsRecur ==
    /\ [](( /\ subscribedLowFrequency
            /\ TokenSet
            /\ ~Transmitted
            /\ clock + 86400 * Milli <= Horizon)
           => <>(Transmitted \/ ~subscribedLowFrequency \/ ~TokenSet))
    /\ [][(/\ LowFrequencyStep
           /\ TokenSet
           /\ clock - lastSentTelemetry.utc >= 86400 * Milli)
          => Len(io'.requests) = 1]_vars

\* a parked, idle vehicle with nothing changed was reported again when a
\* day had passed since the last record
C37_Witness ==
    /\ Transmitted
    /\ io.tick[1].maxElapsedDuration = 86400 * Milli
    /\ io.tick[1].elapsed >= 86400 * Milli
    /\ io.tick[1].elapsed < Epoch

-----------------------------------------------------------------------------
(* The low-frequency handler when queries of the metrics registry fail:    *)
(* the argument cell fn names the signals whose query throws.  The script  *)
(* has no try/catch, so a throw inside OvmsMetrics.HasValue or             *)
(* OvmsMetrics.GetValues leaves the handler through createTelemetry, the   *)
(* handler's first statement.                                              *)

\* requiredMetrics of the case getOVMSMetric executes, in the order
\* isOvmsMetricSupported walks them
RequiredMetrics(parameter) ==
    CASE parameter = "utc" -> << >>
      [] parameter = "capacity" -> <<"v.b.cac", "v.b.voltage.nominal">>
      [] parameter = "kwh_charged" -> <<"v.c.charging", "v.c.kwh">>
      [] OTHER -> <<CHOOSE n \in DefaultSignals(parameter) : TRUE>>

\* the names isOvmsMetricSupported passes to OvmsMetrics.HasValue: the loop
\* returns at the first name without a value
HasValueQueries(requiredMetrics) ==
    {requiredMetrics[i] : i \in {j \in 1..Len(requiredMetrics) :
                                    \A k \in 1..(j - 1) : HasValue(requiredMetrics[k])}}

\* every name createTelemetry asks the registry about: v.type at the top of
\* each getOVMSMetric call, then the required metrics of each parameter
RegistryQueries ==
    {"v.type"} \cup UNION {HasValueQueries(RequiredMetrics(p)) : p \in IternioParameters}

\* signals whose query may throw
FailingSignals == {"v.b.soc", "v.p.speed", "v.b.voltage.nominal"}

UncaughtError == <<"uncaught", "registry error">>

InitFailure ==
    /\ subscribedLowFrequency = FALSE
    /\ subscribedHighFrequency = FALSE
    /\ collectedMetrics = << >>
    /\ lastSentTelemetry = [utc |-> 0]
    /\ PubSub = NoRegistrations
    /\ OvmsConfig \in Configs
    /\ OvmsMetrics \in UNION {Registries[type] : type \in VehicleTypes}
    /\ clock = Epoch
    /\ inflight = FALSE
    /\ io = Quiet("load")
    /\ fn \in [failing : SUBSET FailingSignals]

\* the scheduler delivers ticker.10, vehicle.on or vehicle.off while the
\* queries of the signals in fn.failing throw
LowFrequencyEventOrThrow ==
    /\ \E event \in LowFrequencyEvents : PubSub[<<event, "sendTelemetryIfNecessary">>] > 0
    /\ IF RegistryQueries \cap fn.failing # {}
       THEN /\ io' = [Quiet("sendTelemetryIfNecessary") EXCEPT !.log = <<UncaughtError>>]
            /\ UNCHANGED <<Agent, OvmsConfig, OvmsMetrics, clock, fn>>
       ELSE Commit(sendTelemetryIfNecessary(Current("sendTelemetryIfNecessary")))

NextFailure ==
    \/ VehicleChange
    \/ SendCommand
    \/ LowFrequencyEventOrThrow
    \/ HighFrequencyEvent

SpecFailure == InitFailure /\ [][NextFailure]_vars

\* C31: when a registry query fails while a field is resolved, the field is
\* left out of the record, no error leaves the low-frequency handler and
\* the handler stays subscribed.
C31_RegistryFailureIsUnsupported ==
    [][LowFrequencyStep =>
           /\ ~InSeq(UncaughtError, io'.log)
           /\ subscribedLowFrequency'
           /\ \A event \in LowFrequencyEvents :
                  PubSub'[<<event, "sendTelemetryIfNecessary">>] = 1
           /\ \A i \in 1..Len(io'.requests) :
                  \A field \in DOMAIN io'.requests[i].tlm :
                      DefaultSignals(field) \cap fn.failing = {}]_vars

====
